---------------------------- MODULE Spec2Model ----------------------------
(***************************************************************************)
(* Model of py_model_router.py: the text normalisation, the keyword        *)
(* cascade of recommend_model, and the handlers of RouterGUI.              *)
(*                                                                         *)
(* A Python str is a sequence of one-character strings.                    *)
(***************************************************************************)
EXTENDS Integers, Sequences, FiniteSets

\* ------------------------------------------------------------------------
\* Characters
\* ------------------------------------------------------------------------

\* Characters matched by the class \s of re and removed by str.strip().
Whitespace == {" ", "\t", "\n"}

\* The cased letters of the modelled alphabet: <<lowercase, uppercase>>.
CasePairs ==
  { <<"a","A">>, <<"b","B">>, <<"c","C">>, <<"d","D">>, <<"e","E">>, <<"f","F">>,
    <<"g","G">>, <<"h","H">>, <<"i","I">>, <<"j","J">>, <<"k","K">>, <<"l","L">>,
    <<"m","M">>, <<"n","N">>, <<"o","O">>, <<"p","P">>, <<"q","Q">>, <<"r","R">>,
    <<"s","S">>, <<"t","T">>, <<"u","U">>, <<"v","V">>, <<"w","W">>, <<"x","X">>,
    <<"y","Y">>, <<"z","Z">>, <<"ä","Ä">>, <<"ö","Ö">>, <<"ü","Ü">> }

UpperLetters == { p[2] : p \in CasePairs }

LowerLetters == { p[1] : p \in CasePairs }

\* str.lower() on one character: an uppercase letter becomes its lowercase
\* letter, every other character is kept.
LowerChar(c) ==
  IF c \in UpperLetters THEN (CHOOSE p \in CasePairs : p[2] = c)[1] ELSE c

\* ------------------------------------------------------------------------
\* normalize (lines 24-25)
\* ------------------------------------------------------------------------

\* Mutant of lower: the text is matched in the case it was typed in.
lower_keeps_case(text) == text

\* text.lower()
lower(text) == [i \in 1..Len(text) |-> LowerChar(text[i])]

\* Mutant of re_sub_ws: the pattern \s instead of \s+, one space for every
\* whitespace character.
re_sub_ws_each(s) ==
  [i \in 1..Len(s) |-> IF s[i] \in Whitespace THEN " " ELSE s[i]]

\* re.sub(r"\s+", " ", s): every maximal run of whitespace becomes one space.
\* A position is kept when it is no whitespace or starts a whitespace run.
re_sub_ws(s) ==
  LET idx  == [i \in 1..Len(s) |-> i]
      kept == SelectSeq(idx, LAMBDA i : \/ s[i] \notin Whitespace
                                        \/ i = 1
                                        \/ s[i-1] \notin Whitespace)
  IN  [j \in 1..Len(kept) |-> IF s[kept[j]] \in Whitespace THEN " " ELSE s[kept[j]]]

\* str.strip(): drop leading and trailing whitespace.
strip(s) ==
  LET solid == {i \in 1..Len(s) : s[i] \notin Whitespace}
  IN  IF solid = {} THEN <<>>
      ELSE LET first == CHOOSE i \in solid : \A j \in 1..(i-1) : s[j] \in Whitespace
               last  == CHOOSE i \in solid : \A j \in (i+1)..Len(s) : s[j] \in Whitespace
           IN  SubSeq(s, first, last)

normalize(text) == strip(re_sub_ws(lower(text)))

\* ------------------------------------------------------------------------
\* contains_any (lines 28-29)
\* ------------------------------------------------------------------------

\* Mutant of In: k must occur as a whole word, not inside a longer one.
In_whole_word(k, text) ==
  \E i \in 0..(Len(text) - Len(k)) :
     /\ \A j \in 1..Len(k) : text[i + j] = k[j]
     /\ (i = 0 \/ text[i] \notin LowerLetters)
     /\ (i + Len(k) = Len(text) \/ text[i + Len(k) + 1] \notin LowerLetters)

\* k in text: k occurs in text as a contiguous substring.
In(k, text) ==
  \E i \in 0..(Len(text) - Len(k)) :
     /\ (Len(k) > 0 => text[i + 1] = k[1])
     /\ \A j \in 2..Len(k) : text[i + j] = k[j]

contains_any(text, keywords) ==
  \E n \in 1..Len(keywords) : In(keywords[n], text)

\* ------------------------------------------------------------------------
\* Keyword lists and result texts of recommend_model (lines 40-120)
\* ------------------------------------------------------------------------

audio_kw ==
  <<
    <<"v","o","i","c","e">>,
    <<"a","u","d","i","o">>,
    <<"s","p","r","a","c","h","e">>,
    <<"m","i","k","r","o","f","o","n">>,
    <<"a","u","f","n","e","h","m","e","n">>,
    <<"a","u","f","n","a","h","m","e">>,
    <<"s","p","r","a","c","h","n","a","c","h","r","i","c","h","t">>,
    <<"t","r","a","n","s","k","r","i","b">>,
    <<"d","i","k","t","a","t">>
  >>

image_kw ==
  <<
    <<"b","i","l","d">>,
    <<"s","c","r","e","e","n","s","h","o","t">>,
    <<"p","h","o","t","o">>,
    <<"f","o","t","o">>,
    <<"d","i","a","g","r","a","m">>,
    <<"i","m","a","g","e">>,
    <<"g","r","a","f","i","k">>,
    <<"o","c","r">>,
    <<"e","r","k","e","n","n","e"," ","i","m"," ","b","i","l","d">>,
    <<"b","e","s","c","h","r","e","i","b","e"," ","d","a","s"," ","b","i","l","d">>
  >>

code_kw ==
  <<
    <<"c","o","d","e">>,
    <<"f","u","n","k","t","i","o","n">>,
    <<"r","e","f","a","c","t","o","r">>,
    <<"r","e","f","a","k","t","o","r">>,
    <<"b","u","g">>,
    <<"e","x","c","e","p","t","i","o","n">>,
    <<"s","t","a","c","k"," ","t","r","a","c","e">>,
    <<"s","t","a","c","k","t","r","a","c","e">>,
    <<"k","o","m","p","i","l","i","e","r">>,
    <<"b","u","i","l","d","f","e","h","l","e","r">>,
    <<"u","n","i","t"," ","t","e","s","t">>,
    <<"u","n","i","t","t","e","s","t">>,
    <<"p","y","t","e","s","t">>,
    <<"g","r","a","d","l","e">>,
    <<"m","a","v","e","n">>,
    <<".","p","y">>,
    <<".","j","s">>,
    <<".","t","s">>,
    <<".","j","a","v","a">>,
    <<".","k","t">>,
    <<".","c","s">>,
    <<".","c","p","p">>,
    <<".","c">>,
    <<".","r","b">>,
    <<".","g","o">>,
    <<".","r","s">>,
    <<"d","o","c","k","e","r","f","i","l","e">>,
    <<"r","e","q","u","i","r","e","m","e","n","t","s",".","t","x","t">>,
    <<"p","a","c","k","a","g","e",".","j","s","o","n">>
  >>

reasoning_kw ==
  <<
    <<"a","r","c","h","i","t","e","k","t","u","r">>,
    <<"s","t","r","a","t","e","g","i","e">>,
    <<"b","e","g","r","ü","n","d">>,
    <<"w","a","r","u","m">>,
    <<"a","b","l","e","i","t","u","n","g">>,
    <<"b","e","w","e","i","s","e">>,
    <<"b","e","w","e","i","s">>,
    <<"a","r","g","u","m","e","n","t","i","e","r","e">>,
    <<"s","c","h","r","i","t","t","e">>,
    <<"p","l","a","n">>,
    <<"r","o","a","d","m","a","p">>,
    <<"t","r","a","d","e","-","o","f","f">>,
    <<"t","r","a","d","e","o","f","f">>,
    <<"k","o","n","z","e","p","t">>,
    <<"t","h","r","e","a","t"," ","m","o","d","e","l">>,
    <<"m","o","d","e","l","l","i","e","r","e">>,
    <<"a","n","a","l","y","s","e">>,
    <<"a","l","g","o","r","i","t","h","m">>,
    <<"k","o","m","p","l","e","x","i","t","ä","t">>,
    <<"o","p","t","i","m","i","e","r">>,
    <<"l","o","g","i","k">>,
    <<"p","u","z","z","l","e">>,
    <<"r","ä","t","s","e","l">>,
    <<"f","e","h","l","e","r","u","r","s","a","c","h","e">>,
    <<"u","r","s","a","c","h","e","n","a","n","a","l","y","s","e">>,
    <<"e","n","t","s","c","h","e","i","d">>,
    <<"a","b","w","e","g","u","n","g">>
  >>

quick_kw ==
  <<
    <<"k","u","r","z">>,
    <<"z","u","s","a","m","m","e","n","f","a","s","s","u","n","g">>,
    <<"t","l",";","d","r">>,
    <<"s","t","i","c","h","p","u","n","k","t","e">>,
    <<"b","u","l","l","e","t"," ","p","o","i","n","t","s">>,
    <<"u","m","f","o","r","m","u","l","i","e","r","e","n">>,
    <<"p","a","r","a","p","h","r","a","s">>,
    <<"k","ü","r","z","e","n">>,
    <<"r","e","w","r","i","t","e">>,
    <<"ü","b","e","r","s","e","t","z">>,
    <<"t","r","a","n","s","l","a","t","e">>,
    <<"e","m","o","j","i">>,
    <<"t","i","t","e","l","v","o","r","s","c","h","l","ä","g","e">>,
    <<"s","l","o","g","a","n">>
  >>

\* The four model labels (string literals of lines 72, 81, 87, 95, 103, 111, 117).

GPT_4o == <<"G","P","T","-","4","o">>

o3 == <<"o","3">>

GPT_4_1 == <<"G","P","T","-","4",".","1">>

o4_mini == <<"o","4","-","m","i","n","i">>


\* The fixed reason and alternatives texts of the seven return statements.

Reason_Multimodal ==
  <<
    "A","u","d","i","o","/","B","i","l","d","/","M","u","l","t","i","m","o","d","a","l","i",
    "t","ä","t"," ","e","r","k","a","n","n","t"," ","\\u2013"," ","4","o"," ","i","s","t",
    " ","f","ü","r"," ","V","o","i","c","e","/","B","i","l","d","e","r"," ","o","p","t","i",
    "m","i","e","r","t","."
  >>

Alternatives_Multimodal ==
  <<
    "F","a","l","l","s"," ","n","a","c","h"," ","d","e","r"," ","T","r","a","n","s","k","r",
    "i","p","t","i","o","n","/","A","n","a","l","y","s","e"," ","t","i","e","f","e","r","e",
    "s"," ","D","e","n","k","e","n"," ","n","ö","t","i","g"," ","i","s","t",":"," ","o","3",
    "."," ","F","ü","r"," ","v","i","e","l","e"," ","k","u","r","z","e"," ","F","o","l","g",
    "e","-","E","d","i","t","s",":"," ","o","4","-","m","i","n","i","."
  >>

Reason_DeepCoding ==
  <<
    "C","o","d","i","n","g"," ","m","i","t"," ","k","o","n","z","e","p","t","u","e","l","l",
    "e","r","/","a","l","g","o","r","i","t","h","m","i","s","c","h","e","r"," ","B","e","g",
    "r","ü","n","d","u","n","g"," ","\\u2013"," ","o","3"," ","p","r","i","o","r","i","s",
    "i","e","r","t"," ","t","i","e","f","e","s"," ","R","e","a","s","o","n","i","n","g","."
  >>

Alternatives_DeepCoding ==
  <<
    "F","ü","r"," ","u","n","m","i","t","t","e","l","b","a","r","e","s"," ","I","m","p","l",
    "e","m","e","n","t","i","e","r","e","n","/","R","e","f","a","c","t","o","r","e","n",":",
    " ","G","P","T","-","4",".","1","."," ","F","ü","r"," ","s","c","h","n","e","l","l","e",
    " ","I","t","e","r","a","t","i","o","n","e","n",":"," ","o","4","-","m","i","n","i","."
  >>

Reason_DirectCoding ==
  <<
    "K","o","n","k","r","e","t","e"," ","C","o","d","i","n","g","-","A","u","f","g","a","b",
    "e"," ","e","r","k","a","n","n","t"," ","\\u2013"," ","4",".","1"," ","b","e","f","o",
    "l","g","t"," ","A","n","w","e","i","s","u","n","g","e","n"," ","s","t","a","b","i","l",
    " ","u","n","d"," ","i","s","t"," ","s","t","a","r","k"," ","i","m"," ","R","e","f","a",
    "c","t","o","r","i","n","g","/","I","m","p","l","e","m","e","n","t","i","e","r","e","n",
    "."
  >>

Alternatives_DirectCoding ==
  <<
    "W","e","n","n"," ","A","n","a","l","y","s","e","/","E","n","t","s","c","h","e","i","d",
    "u","n","g","e","n"," ","v","e","r","l","a","n","g","t"," ","s","i","n","d",":"," ","o",
    "3","."," ","F","ü","r"," ","v","i","e","l","e"," ","k","l","e","i","n","e"," ","S","c",
    "h","l","e","i","f","e","n",":"," ","o","4","-","m","i","n","i","."
  >>

Reason_Reasoning ==
  <<
    "B","e","g","r","i","f","f","e"," ","d","e","u","t","e","n"," ","a","u","f"," ","P","l",
    "a","n","u","n","g","/","A","n","a","l","y","s","e","/","E","n","t","s","c","h","e","i",
    "d","u","n","g"," ","h","i","n"," ","\\u2013"," ","o","3"," ","i","s","t"," ","d","a",
    "s"," ","R","e","a","s","o","n","i","n","g","-","M","o","d","e","l","l","."
  >>

Alternatives_Reasoning ==
  <<
    "W","e","n","n"," ","d","u"," ","v","i","e","l","e"," ","k","u","r","z","e"," ","I","t",
    "e","r","a","t","i","o","n","e","n"," ","b","r","a","u","c","h","s","t",":"," ","o","4",
    "-","m","i","n","i","."," ","W","e","n","n"," ","B","i","l","d","e","r","/","V","o","i",
    "c","e"," ","d","a","z","u","k","o","m","m","e","n",":"," ","G","P","T","-","4","o","."
  >>

Reason_QuickEdit ==
  <<
    "K","u","r","z","a","r","b","e","i","t","/","U","m","f","o","r","m","u","l","i","e","r",
    "e","n","/","Z","u","s","a","m","m","e","n","f","a","s","s","e","n"," ","\\u2013"," ",
    "o","4","-","m","i","n","i"," ","i","s","t"," ","s","c","h","n","e","l","l"," ","&"," ",
    "k","o","s","t","e","n","e","f","f","i","z","i","e","n","t","."
  >>

Alternatives_QuickEdit ==
  <<
    "F","ü","r"," ","b","e","s","o","n","d","e","r","s"," ","k","n","i","f","f","l","i","g",
    "e"," ","P","a","s","s","a","g","e","n",":"," ","o","3","."," ","F","ü","r"," ","V","o",
    "i","c","e","/","B","i","l","d","e","r",":"," ","G","P","T","-","4","o","."
  >>

Reason_LongFallback ==
  <<
    "L","a","n","g","e","r","/","u","n","k","l","a","r","e","r"," ","P","r","o","m","p","t",
    " ","\\u2013"," ","o","3"," ","a","l","s"," ","s","i","c","h","e","r","e"," ","W","a",
    "h","l"," ","f","ü","r"," ","g","r","ü","n","d","l","i","c","h","e","s"," ","D","e","n",
    "k","e","n","."
  >>

Alternatives_LongFallback ==
  <<
    "W","e","n","n"," ","e","s"," ","p","r","i","m","ä","r"," ","u","m"," ","s","c","h","n",
    "e","l","l","e"," ","O","b","e","r","f","l","ä","c","h","e","n","a","r","b","e","i","t",
    " ","g","e","h","t",":"," ","o","4","-","m","i","n","i","."
  >>

Reason_ShortFallback ==
  <<
    "K","e","i","n"," ","s","p","e","z","i","e","l","l","e","s"," ","M","u","s","t","e","r",
    " ","e","r","k","a","n","n","t",","," ","e","h","e","r"," ","k","u","r","z","e"," ","A",
    "u","f","g","a","b","e"," ","\\u2013"," ","o","4","-","m","i","n","i"," ","f","ü","r",
    " ","s","c","h","n","e","l","l","e"," ","I","t","e","r","a","t","i","o","n","e","n","."
  >>

Alternatives_ShortFallback ==
  <<
    "W","e","n","n"," ","t","i","e","f","e","r","e"," ","A","n","a","l","y","s","e"," ","n",
    "ö","t","i","g"," ","w","i","r","d",":"," ","o","3","."," ","F","ü","r"," ","V","o","i",
    "c","e","/","B","i","l","d",":"," ","G","P","T","-","4","o","."
  >>

\* The literals of the f-string of on_check (lines 214-216).

Txt_EmpfohlenesModell ==
  <<
    "E","m","p","f","o","h","l","e","n","e","s"," ","M","o","d","e","l","l",":"," "
  >>

Txt_Begruendung ==
  <<
    "\n","\n","B","e","g","r","ü","n","d","u","n","g",":","\n"
  >>

Txt_Alternativen ==
  <<
    "\n","\n","A","l","t","e","r","n","a","t","i","v","e","n",":","\n"
  >>

Txt_Newline ==
  <<
    "\n"
  >>

\* The two literals tested next to reasoning_kw on line 79.
Lit_algorithm == <<"a","l","g","o","r","i","t","h","m">>

Lit_architektur == <<"a","r","c","h","i","t","e","k","t","u","r">>

\* A returned dict (lines 71-75 and the six like it).
Recommendation(model, reason, alternatives) ==
  [model |-> model, reason |-> reason, alternatives |-> alternatives]

\* The seven returned dicts.
Rec_Multimodal == Recommendation(GPT_4o, Reason_Multimodal, Alternatives_Multimodal)

Rec_DeepCoding == Recommendation(o3, Reason_DeepCoding, Alternatives_DeepCoding)

Rec_DirectCoding == Recommendation(GPT_4_1, Reason_DirectCoding, Alternatives_DirectCoding)

Rec_Reasoning == Recommendation(o3, Reason_Reasoning, Alternatives_Reasoning)

Rec_QuickEdit == Recommendation(o4_mini, Reason_QuickEdit, Alternatives_QuickEdit)

Rec_LongFallback == Recommendation(o3, Reason_LongFallback, Alternatives_LongFallback)

\* Mutant of Rec_ShortFallback: the dict of the last return lacks a key.
Rec_ShortFallback_no_alternatives ==
  [model |-> o4_mini, reason |-> Reason_ShortFallback]

Rec_ShortFallback == Recommendation(o4_mini, Reason_ShortFallback, Alternatives_ShortFallback)

\* The threshold of the length fallback (line 109).
LengthThreshold == 700

\* The English spelling, which line 79 does not test.
Lit_architecture == <<"a","r","c","h","i","t","e","c","t","u","r","e">>

\* Mutant of reasoning_cue: only the two literals are tested.
reasoning_cue_literals_only(t) ==
  In(Lit_algorithm, t) \/ In(Lit_architektur, t)

\* Mutant of reasoning_cue: the English spelling counts as a cue as well.
reasoning_cue_english(t) ==
  \/ contains_any(t, reasoning_kw)
  \/ In(Lit_algorithm, t)
  \/ In(Lit_architektur, t)
  \/ In(Lit_architecture, t)

\* The condition of line 79: a reasoning cue next to a code keyword.
reasoning_cue(t) ==
  \/ contains_any(t, reasoning_kw)
  \/ In(Lit_algorithm, t)
  \/ In(Lit_architektur, t)

\* Mutant of is_long: the comparison is not strict.
is_long_ge(length) == length >= LengthThreshold

\* The condition of line 109.
is_long(length) == length > LengthThreshold

\* ------------------------------------------------------------------------
\* recommend_model (lines 32-120)
\* ------------------------------------------------------------------------

\* Mutant of recommend_model: the quick-edit rule is tried before the
\* reasoning rule.
recommend_model_quick_first(user_text) ==
  LET t      == normalize(user_text)
      length == Len(t)
  IN  IF contains_any(t, audio_kw) \/ contains_any(t, image_kw) THEN Rec_Multimodal
      ELSE IF contains_any(t, code_kw)
           THEN IF reasoning_cue(t) THEN Rec_DeepCoding ELSE Rec_DirectCoding
      ELSE IF contains_any(t, quick_kw) THEN Rec_QuickEdit
      ELSE IF contains_any(t, reasoning_kw) THEN Rec_Reasoning
      ELSE IF is_long(length) THEN Rec_LongFallback
      ELSE Rec_ShortFallback

\* Mutant of recommend_model: a long text takes the length fallback before
\* the quick-edit rule is tried.
recommend_model_length_first(user_text) ==
  LET t      == normalize(user_text)
      length == Len(t)
  IN  IF contains_any(t, audio_kw) \/ contains_any(t, image_kw) THEN Rec_Multimodal
      ELSE IF contains_any(t, code_kw)
           THEN IF reasoning_cue(t) THEN Rec_DeepCoding ELSE Rec_DirectCoding
      ELSE IF contains_any(t, reasoning_kw) THEN Rec_Reasoning
      ELSE IF is_long(length) THEN Rec_LongFallback
      ELSE IF contains_any(t, quick_kw) THEN Rec_QuickEdit
      ELSE Rec_ShortFallback

recommend_model(user_text) ==
  LET t      == normalize(user_text)
      length == Len(t)
  IN  IF contains_any(t, audio_kw) \/ contains_any(t, image_kw) THEN Rec_Multimodal
      ELSE IF contains_any(t, code_kw)
           THEN IF reasoning_cue(t) THEN Rec_DeepCoding ELSE Rec_DirectCoding
      ELSE IF contains_any(t, reasoning_kw) THEN Rec_Reasoning
      ELSE IF contains_any(t, quick_kw) THEN Rec_QuickEdit
      ELSE IF is_long(length) THEN Rec_LongFallback
      ELSE Rec_ShortFallback

\* Fragments the short inputs are concatenated from: keywords of each list,
\* keywords inside longer words, capitals, whitespace runs and plain words.

Pieces ==
  {
    <<"V","o","i","c","e">>,
    <<"g","e","b","i","l","d","e","t">>,
    <<"c","o","d","e">>,
    <<"d","e","b","u","g","g","e","n">>,
    <<"U","n","i","t"," ","\n"," ","t","e","s","t">>,
    <<"a","l","g","o","r","i","t","h","m">>,
    <<"a","r","c","h","i","t","e","c","t","u","r","e">>,
    <<"A","r","c","h","i","t","e","k","t","u","r">>,
    <<"p","l","a","n","e","t">>,
    <<"k","u","r","z">>,
    <<"T","L",";","D","R">>,
    <<" ">>,
    <<"\t","\n">>,
    <<"h","a","l","l","o">>,
    <<"X">>,
    <<"m","a","i","n",".","p","y">>,
    <<"Ü","b","e","r","s","e","t","z","e">>
  }

\* The example prompts of the specification.

Example_Transcribe ==
  <<
    "B","i","t","t","e"," ","t","r","a","n","s","k","r","i","b","i","e","r","e"," ","d","i",
    "e","s","e"," ","S","p","r","a","c","h","n","a","c","h","r","i","c","h","t"
  >>

Example_Refactor ==
  <<
    "R","e","f","a","c","t","o","r"," ","t","h","i","s"," ","f","u","n","c","t","i","o","n",
    ","," ","i","t"," ","t","h","r","o","w","s"," ","a","n"," ","e","x","c","e","p","t","i",
    "o","n"
  >>

Example_Begruende ==
  <<
    "B","e","g","r","ü","n","d","e"," ","d","i","e"," ","A","r","c","h","i","t","e","k","t",
    "u","r","-","E","n","t","s","c","h","e","i","d","u","n","g"," ","f","ü","r"," ","d","i",
    "e","s","e","s"," ","M","o","d","u","l",","," ","i","n","k","l","u","s","i","v","e"," ",
    "T","r","a","d","e","-","o","f","f","s"
  >>

Example_Tldr ==
  <<
    "t","l",";","d","r"," ","b","i","t","t","e"
  >>

Examples == {Example_Transcribe, Example_Refactor, Example_Begruende, Example_Tldr}

\* Fragments put before and after the filler of a long input.

Heads ==
  {
    <<>>,
    <<" ","\n"," ">>,
    <<"x"," ","\t"," ">>,
    <<"k","u","r","z"," ">>,
    <<"B","i","l","d">>,
    <<"c","o","d","e">>
  }

Tails ==
  {
    <<>>,
    <<" ","\n">>,
    <<" ","p","l","a","n">>
  }
\* ------------------------------------------------------------------------
\* Inputs of the pure functions
\* ------------------------------------------------------------------------

\* Most pieces concatenated into one short input.
MaxPieces == 2

\* Filler lengths reach this far below and above LengthThreshold.
MaxSlack == 2

RECURSIVE Concats(_)
Concats(n) ==
  IF n = 0 THEN {<<>>}
  ELSE LET shorter == Concats(n - 1)
       IN  shorter \cup {p \o q : p \in shorter, q \in Pieces}

ShortInputs == Concats(MaxPieces) \cup Examples

Fill(k) == [i \in 1..k |-> "x"]

FillLens == (LengthThreshold - MaxSlack)..(LengthThreshold + MaxSlack)

LongInputs == {a \o Fill(k) \o b : a \in Heads, b \in Tails, k \in FillLens}

Inputs == ShortInputs \cup LongInputs

\* Ways of changing nothing but the letter case of a text.
Casings == {"lower", "upper", "swap", "alternate"}

\* The uppercase letter of a lowercase letter; every other character is kept.
UpperChar(c) ==
  IF c \in LowerLetters THEN (CHOOSE p \in CasePairs : p[1] = c)[2] ELSE c

SwapChar(c) ==
  IF c \in UpperLetters THEN LowerChar(c) ELSE UpperChar(c)

Recase(s, m) ==
  [i \in 1..Len(s) |->
     CASE m = "lower"     -> LowerChar(s[i])
       [] m = "upper"     -> UpperChar(s[i])
       [] m = "swap"      -> SwapChar(s[i])
       [] m = "alternate" -> IF i % 2 = 1 THEN UpperChar(s[i]) ELSE LowerChar(s[i])]

\* ------------------------------------------------------------------------
\* State
\* ------------------------------------------------------------------------

VARIABLES
  user_text,     \* the argument of normalize and recommend_model
  t,             \* normalize(user_text)
  t_again,       \* normalize(t)
  rec,           \* recommend_model(user_text)
  variant,       \* a casing variant of user_text
  rec_variant,   \* recommend_model(variant)
  pc,            \* which calls have been made on user_text
  input_txt,     \* RouterGUI.input_txt: the text typed into the input box
  result_txt,    \* RouterGUI.result_txt: the text of the result pane
  clipboard,     \* the Tk clipboard
  notice,        \* the message box the last handler showed, <<>> for none
  calls,         \* the arguments of the calls of recommend_model by the last handler
  handler        \* the last handler run

core_vars == <<user_text, t, t_again, rec, variant, rec_variant, pc>>

gui_vars == <<input_txt, result_txt, clipboard, notice, calls, handler>>

vars == <<core_vars, gui_vars>>

\* The window right after RouterGUI.__init__ (lines 124-205): both text
\* widgets empty, nothing put on the clipboard, no handler run.
GuiStart ==
  /\ input_txt = <<>>
  /\ result_txt = <<>>
  /\ clipboard = <<>>
  /\ notice = <<>>
  /\ calls = <<>>
  /\ handler = "__init__"

\* ------------------------------------------------------------------------
\* The pure functions applied to an input
\* ------------------------------------------------------------------------

Init ==
  /\ user_text \in Inputs
  /\ t = <<>>
  /\ t_again = <<>>
  /\ rec = <<>>
  /\ variant = <<>>
  /\ rec_variant = <<>>
  /\ pc = "start"
  /\ GuiStart

\* t = normalize(user_text)
Normalize ==
  /\ pc = "start"
  /\ t' = normalize(user_text)
  /\ pc' = "normalized"
  /\ UNCHANGED <<user_text, t_again, rec, variant, rec_variant, gui_vars>>

\* normalize applied to its own result
Renormalize ==
  /\ pc = "normalized"
  /\ t_again' = normalize(t)
  /\ pc' = "renormalized"
  /\ UNCHANGED <<user_text, t, rec, variant, rec_variant, gui_vars>>

\* rec = recommend_model(user_text)
Recommend ==
  /\ pc = "renormalized"
  /\ rec' = recommend_model(user_text)
  /\ pc' = "recommended"
  /\ UNCHANGED <<user_text, t, t_again, variant, rec_variant, gui_vars>>

\* recommend_model applied to a casing variant of user_text
RecommendVariant ==
  /\ pc = "recommended"
  /\ \E m \in Casings :
       /\ variant' = Recase(user_text, m)
       /\ rec_variant' = recommend_model(Recase(user_text, m))
  /\ pc' = "done"
  /\ UNCHANGED <<user_text, t, t_again, rec, gui_vars>>

Next == Normalize \/ Renormalize \/ Recommend \/ RecommendVariant

Spec == Init /\ [][Next]_vars

\* ------------------------------------------------------------------------
\* RouterGUI (lines 123-246)
\* ------------------------------------------------------------------------

\* Texts the user types into the input box.
GuiInputs ==
  {
    <<>>,
    <<" ","\n">>,
    <<"k","u","r","z">>,
    <<" ","V","o","i","c","e"," ","\n">>,
    <<"B","i","l","d"," ","c","o","d","e">>,
    <<"c","o","d","e"," ","p","l","a","n">>,
    <<"h","a","l","l","o"," ","w","e","l","t">>,
    <<"T","L",";","D","R","\t">>
  }

\* Texts the user types into the result pane, which is left editable (line 181).
GuiResultEdits ==
  {
    <<"n","o","t","i","z">>,
    <<" ">>
  }

\* The message boxes of the handlers: <<title, message>>; <<>> when none is shown.
Notice_NoPrompt == <<"Hinweis", "Bitte gib zuerst einen Prompt ein.">>

Notice_NoInput == <<"Hinweis", "Kein Eingabetext vorhanden.">>

Notice_NoResult == <<"Hinweis", "Kein Ergebnis zum Kopieren vorhanden.">>

Notice_InputCopied == <<"Kopiert", "Eingabetext wurde in die Zwischenablage kopiert.">>

Notice_ResultCopied == <<"Kopiert", "Ergebnis wurde in die Zwischenablage kopiert.">>

\* widget.get("1.0", "end"): the content of a Tk text widget, which always
\* ends with the widget's own newline.
get_all(content) == content \o <<"\n">>

\* The f-string of on_check (lines 213-217).
Render(r) ==
  Txt_EmpfohlenesModell \o r.model \o Txt_Begruendung \o r.reason
    \o Txt_Alternativen \o r.alternatives \o Txt_Newline

InitGUI ==
  /\ GuiStart
  /\ user_text = <<>>
  /\ t = <<>>
  /\ t_again = <<>>
  /\ rec = <<>>
  /\ variant = <<>>
  /\ rec_variant = <<>>
  /\ pc = "idle"

\* The user edits the input box (line 153).
EditInput ==
  /\ \E txt \in GuiInputs : input_txt' = txt
  /\ notice' = <<>>
  /\ calls' = <<>>
  /\ handler' = "edit_input"
  /\ UNCHANGED <<result_txt, clipboard, core_vars>>

\* The user edits the result pane (line 181, state="normal").
EditResult ==
  /\ \E txt \in GuiResultEdits : result_txt' = txt
  /\ notice' = <<>>
  /\ calls' = <<>>
  /\ handler' = "edit_result"
  /\ UNCHANGED <<input_txt, clipboard, core_vars>>

\* Mutant of on_check: the guard of lines 209-211 is missing.
on_check_unguarded ==
  LET text == strip(get_all(input_txt))
  IN  /\ notice' = <<>>
      /\ calls' = <<text>>
      /\ result_txt' = Render(recommend_model(text))
      /\ handler' = "on_check"
      /\ UNCHANGED <<input_txt, clipboard, core_vars>>

\* RouterGUI.on_check (lines 207-221), the button and both key bindings.
on_check ==
  LET text == strip(get_all(input_txt))
  IN  /\ IF text = <<>>
         THEN /\ notice' = Notice_NoPrompt
              /\ calls' = <<>>
              /\ UNCHANGED result_txt
         ELSE /\ notice' = <<>>
              /\ calls' = <<text>>
              /\ result_txt' = Render(recommend_model(text))
      /\ handler' = "on_check"
      /\ UNCHANGED <<input_txt, clipboard, core_vars>>

\* RouterGUI.copy_input (lines 223-231)
copy_input ==
  LET text == strip(get_all(input_txt))
  IN  /\ IF text = <<>>
         THEN /\ notice' = Notice_NoInput
              /\ UNCHANGED clipboard
         ELSE /\ clipboard' = text
              /\ notice' = Notice_InputCopied
      /\ calls' = <<>>
      /\ handler' = "copy_input"
      /\ UNCHANGED <<input_txt, result_txt, core_vars>>

\* RouterGUI.copy_result (lines 233-241)
copy_result ==
  LET text == strip(get_all(result_txt))
  IN  /\ IF text = <<>>
         THEN /\ notice' = Notice_NoResult
              /\ UNCHANGED clipboard
         ELSE /\ clipboard' = text
              /\ notice' = Notice_ResultCopied
      /\ calls' = <<>>
      /\ handler' = "copy_result"
      /\ UNCHANGED <<input_txt, result_txt, core_vars>>

\* RouterGUI.clear_all (lines 243-246)
clear_all ==
  /\ input_txt' = <<>>
  /\ result_txt' = <<>>
  /\ notice' = <<>>
  /\ calls' = <<>>
  /\ handler' = "clear_all"
  /\ UNCHANGED <<clipboard, core_vars>>

NextGUI ==
  \/ EditInput
  \/ EditResult
  \/ on_check
  \/ copy_input
  \/ copy_result
  \/ clear_all

SpecGUI == InitGUI /\ [][NextGUI]_vars

\* ------------------------------------------------------------------------
\* Vocabulary of the properties
\* ------------------------------------------------------------------------

\* k occurs in s as a contiguous substring (k not empty).
Occurs(k, s) ==
  \E i \in 1..(Len(s) - Len(k) + 1) :
     s[i] = k[1] /\ SubSeq(s, i, i + Len(k) - 1) = k

\* s contains at least one keyword of the list kws as a substring.
Mentions(s, kws) == \E n \in DOMAIN kws : Occurs(kws[n], s)

\* Some keyword of kws occurs in s right after a letter, inside a longer word.
MentionsInsideWord(s, kws) ==
  \E n \in DOMAIN kws : \E i \in 2..(Len(s) - Len(kws[n]) + 1) :
     /\ s[i - 1] \in LowerLetters
     /\ SubSeq(s, i, i + Len(kws[n]) - 1) = kws[n]

Modality(s) == Mentions(s, audio_kw) \/ Mentions(s, image_kw)

NoKeyword(s) ==
  /\ ~Modality(s)
  /\ ~Mentions(s, code_kw)
  /\ ~Mentions(s, reasoning_kw)
  /\ ~Mentions(s, quick_kw)

\* recommend_model(user_text) has returned rec, and t = normalize(user_text).
Returned == pc = "recommended"

ModelLabels == {GPT_4o, o3, GPT_4_1, o4_mini}

\* a and b differ at most in the case of their letters.
SameButCase(a, b) ==
  /\ Len(a) = Len(b)
  /\ \A i \in 1..Len(a) :
       \/ a[i] = b[i]
       \/ <<a[i], b[i]>> \in CasePairs
       \/ <<b[i], a[i]>> \in CasePairs

\* ------------------------------------------------------------------------
\* Properties
\* ------------------------------------------------------------------------

\* C1: when the normalized text contains an audio or an image keyword as a
\* substring, also inside a longer word, the model is "GPT-4o", whatever else
\* the text contains and whatever its length.
C1_ModalityFirst ==
  (Returned /\ Modality(t)) => rec.model = GPT_4o

\* C1 happens: an image keyword inside a longer word, next to a code keyword.
C1_Witness ==
  /\ Returned
  /\ MentionsInsideWord(t, image_kw)
  /\ Mentions(t, code_kw)
  /\ rec.model = GPT_4o

\* C2: with no audio or image keyword and a code keyword, the model is "o3"
\* when the text has a reasoning keyword, "algorithm" or "architektur", and
\* "GPT-4.1" when it has none; the refactoring example yields "GPT-4.1".
C2_CodingSplit ==
  /\ (Returned /\ ~Modality(t) /\ Mentions(t, code_kw)) =>
       rec.model = IF \/ Mentions(t, reasoning_kw)
                      \/ Occurs(Lit_algorithm, t)
                      \/ Occurs(Lit_architektur, t)
                   THEN o3 ELSE GPT_4_1
  /\ (Returned /\ user_text = Example_Refactor) => rec.model = GPT_4_1

\* C2 happens: a code keyword with a reasoning keyword gives the deep-coding result.
C2_Witness ==
  /\ Returned
  /\ ~Modality(t)
  /\ Mentions(t, code_kw)
  /\ Mentions(t, reasoning_kw)
  /\ rec = Rec_DeepCoding

\* C3 as stated: a code keyword and the English literal "architecture", with
\* no audio or image keyword, give "o3".
C3_ArchitectureEnglish ==
  (Returned /\ ~Modality(t) /\ Mentions(t, code_kw) /\ Occurs(Lit_architecture, t))
    => rec.model = o3

\* C3 amended: the literal that gives "o3" next to a code keyword is the
\* German "architektur"; the English "architecture" with no reasoning keyword
\* gives "GPT-4.1".
C3_ArchitekturGerman ==
  /\ (Returned /\ ~Modality(t) /\ Mentions(t, code_kw) /\ Occurs(Lit_architektur, t))
       => rec.model = o3
  /\ (Returned /\ ~Modality(t) /\ Mentions(t, code_kw) /\ Occurs(Lit_architecture, t)
        /\ ~Mentions(t, reasoning_kw))
       => rec.model = GPT_4_1

\* C3 amended happens: code keyword, "architecture", no reasoning keyword.
C3_Witness ==
  /\ Returned
  /\ Mentions(t, code_kw)
  /\ Occurs(Lit_architecture, t)
  /\ ~Mentions(t, reasoning_kw)
  /\ rec.model = GPT_4_1

\* C4: a reasoning keyword and no audio, image or code keyword give "o3",
\* with or without a quick-edit keyword, whatever the length.
C4_ReasoningRule ==
  (Returned /\ Mentions(t, reasoning_kw) /\ ~Modality(t) /\ ~Mentions(t, code_kw))
    => rec.model = o3

\* C4 happens: a reasoning keyword together with a quick-edit keyword.
C4_Witness ==
  /\ Returned
  /\ Mentions(t, reasoning_kw)
  /\ Mentions(t, quick_kw)
  /\ ~Modality(t)
  /\ ~Mentions(t, code_kw)
  /\ rec = Rec_Reasoning

\* C5: a quick-edit keyword and no audio, image, code or reasoning keyword give
\* "o4-mini", also when the normalized text is longer than 700 characters.
C5_QuickRule ==
  (Returned /\ Mentions(t, quick_kw) /\ ~Modality(t) /\ ~Mentions(t, code_kw)
     /\ ~Mentions(t, reasoning_kw))
    => rec.model = o4_mini

\* C5 happens: a quick-edit keyword in a normalized text longer than 700.
C5_Witness ==
  /\ Returned
  /\ Len(t) > LengthThreshold
  /\ Mentions(t, quick_kw)
  /\ rec = Rec_QuickEdit

\* C6: with no keyword of the five lists the model is "o3" exactly when the
\* normalized length exceeds 700 and "o4-mini" otherwise; length 700 and the
\* empty input give "o4-mini".
C6_LengthFallback ==
  /\ (Returned /\ NoKeyword(t)) =>
       rec.model = IF Len(t) > LengthThreshold THEN o3 ELSE o4_mini
  /\ (Returned /\ user_text = <<>>) => rec.model = o4_mini

\* C6 happens: the raw text is longer than 700, the normalized text is exactly 700.
C6_Witness ==
  /\ Returned
  /\ NoKeyword(t)
  /\ Len(user_text) > LengthThreshold
  /\ Len(t) = LengthThreshold
  /\ rec = Rec_ShortFallback

\* C7: recommend_model returns, for every input, a record with exactly the
\* fields model, reason and alternatives, each a non-empty string, and the
\* model is one of the four labels.
C7_Total ==
  Returned =>
    /\ DOMAIN rec = {"model", "reason", "alternatives"}
    /\ Len(rec.model) > 0
    /\ Len(rec.reason) > 0
    /\ Len(rec.alternatives) > 0
    /\ rec.model \in ModelLabels

\* C7 happens: the empty input gets a full record.
C7_Witness ==
  /\ Returned
  /\ user_text = <<>>
  /\ DOMAIN rec = {"model", "reason", "alternatives"}
  /\ rec.model \in ModelLabels

C9_NormalizeIdempotent ==
  pc = "renormalized" =>
    /\ t_again = t
    /\ \A i \in 1..Len(t) : t[i] \notin UpperLetters
    /\ \A i \in 1..Len(t) :
         t[i] \in Whitespace =>
           /\ t[i] = " "
           /\ 1 < i /\ i < Len(t)
           /\ t[i - 1] \notin Whitespace
           /\ t[i + 1] \notin Whitespace

\* C9 happens: an input with capitals, a whitespace run and an outer
\* whitespace, normalized to a text with a space in it.
C9_Witness ==
  /\ pc = "renormalized"
  /\ \E i \in 1..Len(user_text) : user_text[i] \in UpperLetters
  /\ \E i \in 2..Len(user_text) :
       user_text[i] \in Whitespace /\ user_text[i - 1] \in Whitespace
  /\ Len(user_text) > 0
  /\ user_text[Len(user_text)] \in Whitespace
  /\ \E i \in 1..Len(t) : t[i] = " "
  /\ t_again = t

\* s is empty or consists of whitespace only.
Blank(s) == \A i \in 1..Len(s) : s[i] \in Whitespace

\* s without its leading and trailing whitespace.
Stripped(s) ==
  IF Blank(s) THEN <<>>
  ELSE LET a == CHOOSE i \in 1..Len(s) :
                  s[i] \notin Whitespace /\ Blank(SubSeq(s, 1, i - 1))
           b == CHOOSE i \in 1..Len(s) :
                  s[i] \notin Whitespace /\ Blank(SubSeq(s, i + 1, Len(s)))
       IN  SubSeq(s, a, b)

Renderings ==
  { Render(r) : r \in {Rec_Multimodal, Rec_DeepCoding, Rec_DirectCoding, Rec_Reasoning,
                       Rec_QuickEdit, Rec_LongFallback, Rec_ShortFallback} }

\* C10: whatever the user did before, a check with an empty or whitespace-only
\* input box shows the notice, does not call recommend_model and leaves the
\* result pane and the clipboard as they were; a check with any other input
\* replaces the result pane by the rendering of recommend_model applied to the
\* stripped input.
C10_BlankCheckRejected ==
  [][ handler' = "on_check" =>
        IF Blank(input_txt)
        THEN /\ notice' = Notice_NoPrompt
             /\ calls' = <<>>
             /\ result_txt' = result_txt
             /\ clipboard' = clipboard
        ELSE /\ calls' = <<Stripped(input_txt)>>
             /\ result_txt' = Render(recommend_model(Stripped(input_txt)))
             /\ clipboard' = clipboard ]_vars

\* C10 happens: a blank check was rejected while an earlier recommendation is
\* still displayed.
C10_Witness ==
  /\ handler = "on_check"
  /\ Blank(input_txt)
  /\ notice = Notice_NoPrompt
  /\ calls = <<>>
  /\ result_txt \in Renderings

=============================================================================
